---- MODULE Spec2Model ----
(***************************************************************************)
(* Model of scripts/gen_dump.py: the column discovery against the          *)
(* development database, the reconciliation of the discovered columns with *)
(* the production column set, the filtered export of uk_lrt, the import    *)
(* header file and the full exports of the three auxiliary tables.         *)
(*                                                                         *)
(* Text (a process's stdout or stderr, an SQL statement, a printed line)   *)
(* is a sequence of chunks; the text is the concatenation of its chunks.   *)
(* A whitespace character is always a chunk of its own, so that split and  *)
(* strip act on chunks as Python's act on characters.  A column name is a  *)
(* string: the concatenation of the chunks of its line.                    *)
(***************************************************************************)
EXTENDS Integers, Sequences, FiniteSets, TLC

VARIABLES
    pc,             \* the statement the script is at
    result,         \* the CompletedProcess of the last subprocess.run
    dev_cols,       \* line 15
    prod_cols_set,  \* lines 18-49
    set_order,      \* the order in which iterating prod_cols_set yields its names
    common_cols,    \* line 52
    dev_only,       \* line 54
    prod_only,      \* line 55
    quoted,         \* line 69
    export_sql,     \* line 73
    table_idx,      \* position of the for loop of line 89 in its list
    inflight,       \* the psql invocations started and not yet returned
    calls,          \* every psql invocation started so far, in order
    returned,       \* exit status and stderr of every invocation returned so far, in order
    printed,        \* everything printed so far, one text per print
    writes          \* every file written by the script so far, in order

vars == <<pc, result, dev_cols, prod_cols_set, set_order, common_cols, dev_only, prod_only,
          quoted, export_sql, table_idx, inflight, calls, returned, printed, writes>>

----------------------------------------------------------------------------
(* Bounds of the model. *)

\* longest stdout of the column discovery, in chunks
MaxOut == 3
\* longest development column list the reconciliation is applied to directly
MaxCols == 3
\* largest set of which every iteration order is enumerated
MaxEnum == 4

----------------------------------------------------------------------------
(* Text primitives. *)

Range(s) == {s[i] : i \in 1..Len(s)}

Whitespace == {" ", "\n", "\t", "\r"}

RECURSIVE LStrip(_)
LStrip(t) ==
    IF t # <<>> /\ Head(t) \in Whitespace THEN LStrip(Tail(t)) ELSE t

RECURSIVE RStrip(_)
RStrip(t) ==
    IF t # <<>> /\ t[Len(t)] \in Whitespace
    THEN RStrip(SubSeq(t, 1, Len(t) - 1))
    ELSE t

\* str.strip()
Strip(t) == RStrip(LStrip(t))

\* str.split(sep): the pieces between the separators, [''] for the empty text
RECURSIVE Split(_, _)
Split(t, sep) ==
    IF \E i \in 1..Len(t) : t[i] = sep
    THEN LET i == CHOOSE k \in 1..Len(t) :
                      t[k] = sep /\ \A j \in 1..(k - 1) : t[j] # sep
         IN  <<SubSeq(t, 1, i - 1)>> \o Split(SubSeq(t, i + 1, Len(t)), sep)
    ELSE <<t>>

\* the string a text spells
RECURSIVE Concat(_)
Concat(t) == IF t = <<>> THEN "" ELSE Head(t) \o Concat(Tail(t))

Reverse(s) == [i \in 1..Len(s) |-> s[Len(s) + 1 - i]]

\* every text of at most n chunks of the set chunks
Texts(chunks, n) == UNION {[1..k -> chunks] : k \in 0..n}

----------------------------------------------------------------------------
(* Column discovery: line 15. *)

RECURSIVE StripLines(_)
StripLines(lines) ==
    IF lines = <<>> THEN <<>>
    ELSE LET c == Strip(Head(lines))
         IN  IF c # <<>>
             THEN <<Concat(c)>> \o StripLines(Tail(lines))
             ELSE StripLines(Tail(lines))

\* [c.strip() for c in stdout.strip().split('\n') if c.strip()]
ParseColumns(stdout) == StripLines(Split(Strip(stdout), "\n"))

----------------------------------------------------------------------------
(* The production column set: lines 18-49.  The code points U+1F53A and    *)
(* U+1F53B are written with the escapes of the source.                     *)

ProdColsLiteral ==
    << "acronym", "amended_by", "amended_by_change_log", "amending", "amending_change_log",
       "article_duty_type", "created_at", "domain", "duties", "duty_holder", "duty_type",
       "duty_type_article", "enacted_by", "enacted_by_meta", "enacting", "family", "family_ii",
       "function", "geo_detail", "geo_extent", "geo_region", "id", "is_amending", "is_commencing",
       "is_enacting", "is_making", "is_rescinding", "latest_amend_date", "latest_amend_date_month",
       "latest_amend_date_year", "latest_change_date", "latest_rescind_date",
       "latest_rescind_date_month", "latest_rescind_date_year", "leg_gov_uk_url",
       "linked_amended_by", "linked_amending", "linked_enacted_by", "linked_rescinded_by",
       "linked_rescinding", "live", "live_conflict", "live_conflict_detail", "live_description",
       "live_from_changes", "live_from_metadata", "live_source", "md_attachment_paras",
       "md_body_paras", "md_coming_into_force_date", "md_date", "md_dct_valid_date",
       "md_description", "md_enactment_date", "md_images", "md_made_date", "md_modified",
       "md_restrict_extent", "md_restrict_start_date", "md_schedule_paras", "md_subjects",
       "md_total_paras", "name", "number", "number_int", "old_style_number", "popimar",
       "popimar_details", "power_holder", "powers", "purpose", "record_change_log", "rescinded_by",
       "rescinding", "responsibilities", "responsibility_holder", "rights", "rights_holder", "role",
       "role_details", "role_gvt", "role_gvt_details", "si_code", "tags", "title_en", "type_class",
       "type_code", "type_desc", "updated_at", "year",
       "\\U0001f53a_affects_stats_per_law",
       "\\U0001f53a_rescinding_stats_per_law",
       "\\U0001f53a_stats_affected_laws_count",
       "\\U0001f53a_stats_affects_count",
       "\\U0001f53a_stats_rescinding_laws_count",
       "\\U0001f53a\\U0001f53b_stats_self_affects_count",
       "\\U0001f53a\\U0001f53b_stats_self_affects_count_per_law_detailed",
       "\\U0001f53b_affected_by_stats_per_law",
       "\\U0001f53b_rescinded_by_stats_per_law",
       "\\U0001f53b_stats_affected_by_count",
       "\\U0001f53b_stats_affected_by_laws_count",
       "\\U0001f53b_stats_rescinded_by_laws_count" >>

ProdCols == Range(ProdColsLiteral)

----------------------------------------------------------------------------
(* Reconciliation: lines 52-55. *)

\* Variants of line 52 with a slip in it.
\* [c for c in prod_cols_set if c in dev_cols]: the production set leads
CommonProdOrder(D, P) ==
    LET InDev(c) == c \in Range(D)
    IN  SelectSeq(set_order, InDev)

\* the development list is traversed twice
CommonTwice(D, P) ==
    LET InProd(c) == c \in P
    IN  SelectSeq(D \o D, InProd)

\* the development list is traversed from its end
CommonReversed(D, P) ==
    LET InProd(c) == c \in P
    IN  Reverse(SelectSeq(D, InProd))

\* [c for c in D if c in P]
Common(D, P) ==
    LET InProd(c) == c \in P
    IN  SelectSeq(D, InProd)

\* Variant of line 54 with the test of line 52 kept ("in" for "not in").
DevOnlyIn(D, P) ==
    LET InProd(c) == c \in P
    IN  SelectSeq(D, InProd)

\* [c for c in D if c not in P]
DevOnly(D, P) ==
    LET NotInProd(c) == c \notin P
    IN  SelectSeq(D, NotInProd)

\* [c for c in P if c not in set(D)], P iterated in the order iter
ProdOnly(D, iter) ==
    LET NotInDev(c) == c \notin Range(D)
    IN  SelectSeq(iter, NotInDev)

\* The orders in which iterating the set S can yield its elements.  Python
\* leaves the order of a set of strings open (it depends on the hash seed of
\* the process) and keeps it for the life of the set.  Every order is
\* enumerated for a set of at most MaxEnum names; of a larger set, the order
\* of the literal and its reverse.
SetIterations(S, literal) ==
    IF Cardinality(S) <= MaxEnum
    THEN {s \in [1..Cardinality(S) -> S] : Range(s) = S}
    ELSE {literal, Reverse(literal)}

----------------------------------------------------------------------------
(* The SQL the script builds: lines 69, 73, 85, 94; and the query of       *)
(* line 12.                                                                *)

QuoteCol(c) == <<"\"", c, "\"">>

\* ", ".join(f'"{c}"' for c in cols)
RECURSIVE Quoted(_)
Quoted(cols) ==
    IF cols = <<>> THEN <<>>
    ELSE IF Len(cols) = 1 THEN QuoteCol(cols[1])
    ELSE QuoteCol(Head(cols)) \o <<", ">> \o Quoted(Tail(cols))

ExportPrefix == "\\COPY (SELECT "
ExportSuffix == " FROM uk_lrt) TO '/tmp/uk_lrt_export.tsv' WITH (FORMAT text)"
ExportSql(q) == <<ExportPrefix>> \o q \o <<ExportSuffix>>

ImportPrefix == "COPY uk_lrt ("
ImportSuffix == ") FROM STDIN WITH (FORMAT text);\n"
ImportHeader(q) == <<ImportPrefix>> \o q \o <<ImportSuffix>>

ImportPath == "/tmp/uk_lrt_import.sql"

DiscoverSql ==
    <<"SELECT column_name FROM information_schema.columns WHERE table_name = 'uk_lrt' ORDER BY ordinal_position;">>

AuxTables == <<"cascade_affected_laws", "scrape_sessions", "scrape_session_records">>

AuxSql(table) ==
    <<"\\COPY ", table, " TO '/tmp/", table, "_export.tsv' WITH (FORMAT text)">>

\* the argument list of a psql invocation: the connection arguments are the
\* same in the three places, the flags and the statement differ
Psql(flags, sql) ==
    [conn  |-> <<"psql", "-h", "localhost", "-p", "5436", "-U", "postgres",
                 "-d", "sertantai_legal_dev">>,
     flags |-> flags,
     sql   |-> sql]

----------------------------------------------------------------------------
(* What a psql invocation can return.  subprocess.run(capture_output=True, *)
(* text=True) returns the exit status and the two captured streams; it     *)
(* raises nothing on a non-zero exit status (check is not set).            *)

NoResult == [returncode |-> 0, stdout |-> <<>>, stderr |-> <<>>]

ConnectionRefused ==
    <<"psql: error: connection to server at \"localhost\", port 5436 failed: Connection refused", "\n">>

\* the chunks the stdout of the column discovery is made of: two names of
\* the production set, one with non-ASCII code points, a name that is not
\* in the production set, a blank and a line end
DiscoverChunks ==
    {"id", "\\U0001f53a_stats_affects_count", "secret_col", " ", "\n"}

QueryError ==
    <<"ERROR:  permission denied for view columns", "\n">>

\* the query done, the server not reached (psql exits with 2), the query
\* refused (psql exits with 1); stdout is whatever psql had written
DiscoverResults ==
    {[returncode |-> st[1], stdout |-> out, stderr |-> st[2]] :
        st \in {<<0, <<>>>>, <<2, ConnectionRefused>>, <<1, QueryError>>},
        out \in Texts(DiscoverChunks, MaxOut)}

\* a \COPY: done, refused by the server, done with a warning on stderr
CopyResults ==
    { [returncode |-> 0, stdout |-> <<"COPY 1", "\n">>, stderr |-> <<>>],
      [returncode |-> 1, stdout |-> <<>>,
       stderr |-> <<"ERROR:  syntax error at or near \")\"", "\n">>],
      [returncode |-> 0, stdout |-> <<"COPY 1", "\n">>,
       stderr |-> <<"WARNING:  database \"sertantai_legal_dev\" has a collation version mismatch", "\n">>] }

\* print(result.stdout); if result.stderr: print(f"STDERR: {result.stderr}")
PrintResult(out, r) ==
    LET withOut == Append(out, r.stdout)
    IN  IF r.stderr # <<>>
        THEN Append(withOut, <<"STDERR: ">> \o r.stderr)
        ELSE withOut

----------------------------------------------------------------------------
(* The script, statement by statement. *)

Init ==
    /\ pc = "discover"
    /\ result = NoResult
    /\ dev_cols = <<>>
    /\ prod_cols_set = ProdCols
    /\ set_order \in SetIterations(ProdCols, ProdColsLiteral)
    /\ common_cols = <<>>
    /\ dev_only = <<>>
    /\ prod_only = <<>>
    /\ quoted = <<>>
    /\ export_sql = <<>>
    /\ table_idx = 1
    /\ inflight = {}
    /\ calls = <<>>
    /\ returned = <<>>
    /\ printed = <<>>
    /\ writes = <<>>

\* subprocess.run starts psql and blocks
Start(call) ==
    /\ inflight' = inflight \cup {call}
    /\ calls' = Append(calls, call)
    /\ UNCHANGED returned

\* subprocess.run returns the CompletedProcess r
Return(r) ==
    /\ inflight' = {}
    /\ result' = r
    /\ returned' = Append(returned, [returncode |-> r.returncode, stderr |-> r.stderr])

\* lines 9-14, the call
DiscoverCall ==
    /\ pc = "discover"
    /\ inflight = {}
    /\ Start(Psql(<<"-t", "-A">>, DiscoverSql))
    /\ UNCHANGED <<pc, result, dev_cols, prod_cols_set, set_order, common_cols,
                   dev_only, prod_only, quoted, export_sql, table_idx, printed,
                   writes>>

\* Variant of lines 9-15 with check=True: a non-zero exit status raises
\* CalledProcessError and the script ends there.
DiscoverReturnChecked ==
    /\ pc = "discover"
    /\ inflight # {}
    /\ \E r \in DiscoverResults :
          /\ Return(r)
          /\ IF r.returncode # 0
             THEN pc' = "crashed" /\ UNCHANGED dev_cols
             ELSE pc' = "reconcile" /\ dev_cols' = ParseColumns(r.stdout)
    /\ UNCHANGED <<prod_cols_set, set_order, common_cols, dev_only, prod_only,
                   quoted, export_sql, table_idx, calls, printed, writes>>

\* lines 9-15, the return: neither the exit status nor stderr is read
DiscoverReturn ==
    /\ pc = "discover"
    /\ inflight # {}
    /\ \E r \in DiscoverResults :
          /\ Return(r)
          /\ dev_cols' = ParseColumns(r.stdout)
    /\ pc' = "reconcile"
    /\ UNCHANGED <<prod_cols_set, set_order, common_cols, dev_only, prod_only,
                   quoted, export_sql, table_idx, calls, printed, writes>>

\* lines 52-55
Reconcile ==
    /\ pc = "reconcile"
    /\ common_cols' = Common(dev_cols, prod_cols_set)
    /\ dev_only' = DevOnly(dev_cols, prod_cols_set)
    /\ prod_only' = ProdOnly(dev_cols, set_order)
    /\ pc' = "report"
    /\ UNCHANGED <<returned, result, dev_cols, prod_cols_set, set_order, quoted,
                   export_sql, table_idx, inflight, calls, printed, writes>>

Count(label, n) == <<label, ToString(n)>>

Bullets(cols) == [i \in 1..Len(cols) |-> <<"  - ", cols[i]>>]

\* lines 57-66
Report ==
    /\ pc = "report"
    /\ printed' = printed
          \o << Count("Dev columns: ", Len(dev_cols)),
                Count("Prod columns: ", Cardinality(prod_cols_set)),
                Count("Common columns: ", Len(common_cols)),
                Count("Dev-only (skipped): ", Len(dev_only)) >>
          \o Bullets(dev_only)
          \o (IF prod_only # <<>>
              THEN <<Count("Prod-only (not in dev): ", Len(prod_only))>>
                       \o Bullets(prod_only)
              ELSE <<>>)
    /\ pc' = "export"
    /\ UNCHANGED <<returned, result, dev_cols, prod_cols_set, set_order, common_cols,
                   dev_only, prod_only, quoted, export_sql, table_idx, inflight,
                   calls, writes>>

\* Variant of lines 69-78 that selects every development column.
ExportCallDevCols ==
    /\ pc = "export"
    /\ inflight = {}
    /\ quoted' = Quoted(dev_cols)
    /\ printed' = Append(printed, <<"\n", "Exporting uk_lrt...">>)
    /\ export_sql' = ExportSql(quoted')
    /\ Start(Psql(<<>>, export_sql'))
    /\ UNCHANGED <<pc, result, dev_cols, prod_cols_set, set_order, common_cols,
                   dev_only, prod_only, table_idx, writes>>

\* Variant of lines 69-78 that ends the script when there is no common column.
ExportCallGuarded ==
    /\ pc = "export"
    /\ inflight = {}
    /\ IF common_cols = <<>>
       THEN /\ pc' = "done"
            /\ UNCHANGED <<quoted, export_sql, printed, inflight, calls, returned>>
       ELSE /\ quoted' = Quoted(common_cols)
            /\ printed' = Append(printed, <<"\n", "Exporting uk_lrt...">>)
            /\ export_sql' = ExportSql(quoted')
            /\ Start(Psql(<<>>, export_sql'))
            /\ UNCHANGED pc
    /\ UNCHANGED <<result, dev_cols, prod_cols_set, set_order, common_cols,
                   dev_only, prod_only, table_idx, writes>>

\* lines 69-78, the call
ExportCall ==
    /\ pc = "export"
    /\ inflight = {}
    /\ quoted' = Quoted(common_cols)
    /\ printed' = Append(printed, <<"\n", "Exporting uk_lrt...">>)
    /\ export_sql' = ExportSql(quoted')
    /\ Start(Psql(<<>>, export_sql'))
    /\ UNCHANGED <<pc, result, dev_cols, prod_cols_set, set_order, common_cols,
                   dev_only, prod_only, table_idx, writes>>

\* Variant of lines 74-81 that ends the script when the export failed.
ExportReturnAbort ==
    /\ pc = "export"
    /\ inflight # {}
    /\ \E r \in CopyResults :
          /\ Return(r)
          /\ printed' = PrintResult(printed, r)
          /\ pc' = IF r.returncode # 0 THEN "done" ELSE "header"
    /\ UNCHANGED <<dev_cols, prod_cols_set, set_order, common_cols, dev_only,
                   prod_only, quoted, export_sql, table_idx, calls, writes>>

\* lines 74-81, the return
ExportReturn ==
    /\ pc = "export"
    /\ inflight # {}
    /\ \E r \in CopyResults :
          /\ Return(r)
          /\ printed' = PrintResult(printed, r)
    /\ pc' = "header"
    /\ UNCHANGED <<dev_cols, prod_cols_set, set_order, common_cols, dev_only,
                   prod_only, quoted, export_sql, table_idx, calls, writes>>

\* lines 84-86
WriteHeader ==
    /\ pc = "header"
    /\ writes' = Append(writes, [path |-> ImportPath, content |-> ImportHeader(quoted)])
    /\ printed' = Append(printed, <<"Generated /tmp/uk_lrt_import.sql (header only)">>)
    /\ pc' = "aux"
    /\ UNCHANGED <<returned, result, dev_cols, prod_cols_set, set_order, common_cols,
                   dev_only, prod_only, quoted, export_sql, table_idx, inflight,
                   calls>>

\* lines 89-96, the call of one iteration
AuxCall ==
    /\ pc = "aux"
    /\ inflight = {}
    /\ table_idx <= Len(AuxTables)
    /\ printed' = Append(printed, <<"\n", "Exporting ", AuxTables[table_idx], "...">>)
    /\ Start(Psql(<<>>, AuxSql(AuxTables[table_idx])))
    /\ UNCHANGED <<pc, result, dev_cols, prod_cols_set, set_order, common_cols,
                   dev_only, prod_only, quoted, export_sql, table_idx, writes>>

\* Variant of lines 91-99 that leaves the loop when an export failed.
AuxReturnBreak ==
    /\ pc = "aux"
    /\ inflight # {}
    /\ \E r \in CopyResults :
          /\ Return(r)
          /\ printed' = PrintResult(printed, r)
          /\ table_idx' = IF r.returncode # 0 \/ r.stderr # <<>>
                          THEN Len(AuxTables) + 1
                          ELSE table_idx + 1
    /\ UNCHANGED <<pc, dev_cols, prod_cols_set, set_order, common_cols,
                   dev_only, prod_only, quoted, export_sql, calls, writes>>

\* lines 91-99, the return of one iteration
AuxReturn ==
    /\ pc = "aux"
    /\ inflight # {}
    /\ \E r \in CopyResults :
          /\ Return(r)
          /\ printed' = PrintResult(printed, r)
    /\ table_idx' = table_idx + 1
    /\ UNCHANGED <<pc, dev_cols, prod_cols_set, set_order, common_cols,
                   dev_only, prod_only, quoted, export_sql, calls, writes>>

\* lines 101-105, once the list of line 89 is exhausted
Finish ==
    /\ pc = "aux"
    /\ inflight = {}
    /\ table_idx > Len(AuxTables)
    /\ printed' = printed
          \o << <<"\n", "Done! Files in /tmp/:">>,
                <<"  uk_lrt_export.tsv">>,
                <<"  cascade_affected_laws_export.tsv">>,
                <<"  scrape_sessions_export.tsv">>,
                <<"  scrape_session_records_export.tsv">> >>
    /\ pc' = "done"
    /\ UNCHANGED <<returned, result, dev_cols, prod_cols_set, set_order, common_cols,
                   dev_only, prod_only, quoted, export_sql, table_idx, inflight,
                   calls, writes>>

Next ==
    \/ DiscoverCall
    \/ DiscoverReturn
    \/ Reconcile
    \/ Report
    \/ ExportCall
    \/ ExportReturn
    \/ WriteHeader
    \/ AuxCall
    \/ AuxReturn
    \/ Finish

Spec == Init /\ [][Next]_vars

\* subprocess.run blocks until psql exits and the interpreter runs one
\* statement after the other: given that every psql invocation returns, a
\* step that can be taken is taken
FairSpec == Spec /\ WF_vars(Next)

----------------------------------------------------------------------------
(* The reconciliation of lines 52-55 on its own, applied to every          *)
(* development column list of at most MaxCols names and every production   *)
(* column set over ReconNames.                                             *)

ReconNamesLiteral ==
    <<"id", "year", "secret_col", "\\U0001f53a_stats_affects_count">>

ReconNames == Range(ReconNamesLiteral)

InitRecon ==
    /\ pc = "reconcile"
    /\ result = NoResult
    /\ dev_cols \in Texts(ReconNames, MaxCols)
    /\ prod_cols_set \in SUBSET ReconNames
    /\ set_order \in SetIterations(prod_cols_set,
                                   Common(ReconNamesLiteral, prod_cols_set))
    /\ common_cols = <<>>
    /\ dev_only = <<>>
    /\ prod_only = <<>>
    /\ quoted = <<>>
    /\ export_sql = <<>>
    /\ table_idx = 1
    /\ inflight = {}
    /\ calls = <<>>
    /\ returned = <<>>
    /\ printed = <<>>
    /\ writes = <<>>

NextRecon == Reconcile

SpecRecon == InitRecon /\ [][NextRecon]_vars

----------------------------------------------------------------------------
(* Properties. *)

\* lines 52-55 have run
Reconciled == pc \notin {"discover", "reconcile"}

\* the positions of D whose name is in P (inP) or is not in P (~inP)
Kept(D, P, inP) == {j \in 1..Len(D) : (D[j] \in P) = inP}

\* sub is D restricted to the positions J, in the order of D
IsOrderedSelection(sub, D, J) ==
    /\ Len(sub) = Cardinality(J)
    /\ \E f \in [1..Len(sub) -> 1..Len(D)] :
          /\ \A i, k \in 1..Len(sub) : i < k => f[i] < f[k]
          /\ \A i \in 1..Len(sub) : sub[i] = D[f[i]]
          /\ {f[i] : i \in 1..Len(sub)} = J

NoDuplicates(s) == \A i, k \in 1..Len(s) : s[i] = s[k] => i = k

\* an invocation failed: non-zero exit status or text on stderr
Failed(r) == r.returncode # 0 \/ r.stderr # <<>>

\* The column list of a statement prefix "c1", "c2", ... suffix: the chunks
\* between the quotes, once the statement is seen to have that form.
StatementBody(stmt) == SubSeq(stmt, 2, Len(stmt) - 1)

HasColumnListForm(stmt, prefix, suffix) ==
    LET body == StatementBody(stmt)
    IN  /\ Len(stmt) >= 2
        /\ stmt[1] = prefix
        /\ stmt[Len(stmt)] = suffix
        /\ body = <<>> \/ Len(body) % 4 = 3
        /\ \A i \in 1..Len(body) :
              /\ i % 4 \in {1, 3} => body[i] = "\""
              /\ i % 4 = 0 => body[i] = ", "

ColumnList(stmt) ==
    LET body == StatementBody(stmt)
    IN  [i \in 1..((Len(body) + 1) \div 4) |-> body[4 * i - 2]]

\* C1: once reconciled, Common Columns is the development column list
\* restricted, in its order and with nothing else changed, to the positions
\* whose name is a member of the production column set; names are compared
\* as they are.
C1_CommonIsOrderedFilter ==
    Reconciled =>
        IsOrderedSelection(common_cols, dev_cols,
                           Kept(dev_cols, prod_cols_set, TRUE))

\* a name with non-ASCII code points, in both D and P, kept in front of a
\* later common name, a development-only name between them dropped
C1_Witness ==
    /\ pc = "report"
    /\ Len(dev_cols) = 3
    /\ dev_cols[1] = "\\U0001f53a_stats_affects_count"
    /\ dev_cols[2] \notin prod_cols_set
    /\ common_cols = <<"\\U0001f53a_stats_affects_count", "id">>

\* C2: once reconciled, Dev-Only is the development column list restricted,
\* in its order, to the names not in the production set; the names of
\* Prod-Only are the production set minus the names of the development list;
\* Common and Dev-Only together hold the names of the development list and
\* share none.
C2_Differences ==
    Reconciled =>
        /\ IsOrderedSelection(dev_only, dev_cols,
                              Kept(dev_cols, prod_cols_set, FALSE))
        /\ Range(prod_only) = prod_cols_set \ Range(dev_cols)
        /\ Range(common_cols) \cup Range(dev_only) = Range(dev_cols)
        /\ Range(common_cols) \cap Range(dev_only) = {}

C2_Witness ==
    /\ pc = "report"
    /\ Len(common_cols) >= 1
    /\ Len(dev_only) >= 2
    /\ Len(prod_only) >= 2

\* C7: once reconciled, a development column list without a duplicate name
\* gives Common Columns without a duplicate name.
C7_NoDuplicates ==
    (Reconciled /\ NoDuplicates(dev_cols)) => NoDuplicates(common_cols)

C7_Witness ==
    /\ pc = "report"
    /\ NoDuplicates(dev_cols)
    /\ Len(dev_cols) = 3
    /\ Len(common_cols) = 2

C3_Tables == <<"cascade_affected_laws", "scrape_sessions", "scrape_session_records">>

\* the invocations after the column discovery and the primary-table export
AuxCallsIssued == SubSeq(calls, 3, Len(calls))

\* C3: the auxiliary exports issued so far are, in order, unfiltered exports
\* of the first tables of the fixed list; while a table is left the script
\* has a step to take, whatever the earlier exports returned; at the end of
\* the run all three have been issued.
C3_AuxiliaryExportsIndependent ==
    /\ Len(AuxCallsIssued) <= Len(C3_Tables)
    /\ \A i \in 1..Len(AuxCallsIssued) :
          /\ AuxCallsIssued[i].sql[1] = "\\COPY "
          /\ AuxCallsIssued[i].sql[2] = C3_Tables[i]
          /\ Len(AuxCallsIssued[i].sql) = 5
    /\ (pc = "aux" /\ Len(AuxCallsIssued) < Len(C3_Tables)) => ENABLED Next
    /\ pc = "done" => Len(AuxCallsIssued) = Len(C3_Tables)

\* the export of the first auxiliary table failed and the run ended
C3_Witness ==
    /\ pc = "done"
    /\ Len(returned) = 5
    /\ returned[3].returncode # 0
    /\ returned[3].stderr # <<>>
    /\ ~Failed(returned[5])

\* the text t ends with the text tail
EndsWith(t, tail) ==
    /\ Len(t) >= Len(tail)
    /\ SubSeq(t, Len(t) - Len(tail) + 1, Len(t)) = tail

\* C4: every invocation that returned with text on stderr has had that
\* text printed, and the script then has a step to take or is at its end.
C4_EveryStderrPrinted ==
    /\ \A i \in 1..Len(returned) :
          returned[i].stderr # <<>> =>
              \E k \in 1..Len(printed) : EndsWith(printed[k], returned[i].stderr)
    /\ pc # "done" => ENABLED Next

\* the column discovery returned with a failure
DiscoveryFailed == returned # <<>> /\ Failed(returned[1])

\* C5 as stated: after a failed column discovery no reconciliation result,
\* no primary-table export and no import header is produced.
C5_FailedDiscoveryPropagates ==
    DiscoveryFailed =>
        /\ ~Reconciled
        /\ Len(calls) = 1
        /\ writes = <<>>

\* C5 as amended: a failed column discovery is not propagated.  The column
\* list is what the captured stdout parses to (the empty list when psql
\* printed nothing); the script always has a next step until its end; the
\* primary-table export and the import header are produced from the Common
\* Columns of that list.
C5_FailedDiscoveryContinues ==
    DiscoveryFailed =>
        /\ pc # "done" => ENABLED Next
        /\ (pc = "reconcile" /\ result.stdout = <<>>) => dev_cols = <<>>
        /\ Len(calls) >= 2 =>
              /\ Reconciled
              /\ ColumnList(calls[2].sql) = common_cols
        /\ pc \in {"aux", "done"} =>
              /\ Len(writes) = 1
              /\ ColumnList(writes[1].content) = common_cols

\* a run that ended after a column discovery that failed with nothing on stdout
C5_Witness ==
    /\ pc = "done"
    /\ DiscoveryFailed
    /\ dev_cols = <<>>
    /\ Len(calls) = 5
    /\ Len(writes) = 1

\* C6: the statement of the primary-table export and the statement written
\* to the import header file have the form prefix "c1", "c2", ... suffix;
\* the column list of each is Common Columns, name by name in its order;
\* no chunk of either is a Dev-Only or a Prod-Only name.
C6_SameColumnList ==
    /\ Len(calls) >= 2 =>
          /\ calls[2].sql = export_sql
          /\ HasColumnListForm(export_sql, "\\COPY (SELECT ",
                 " FROM uk_lrt) TO '/tmp/uk_lrt_export.tsv' WITH (FORMAT text)")
          /\ ColumnList(export_sql) = common_cols
          /\ Range(export_sql) \cap (Range(dev_only) \cup Range(prod_only)) = {}
    /\ writes # <<>> =>
          /\ Len(writes) = 1
          /\ writes[1].path = "/tmp/uk_lrt_import.sql"
          /\ HasColumnListForm(writes[1].content, "COPY uk_lrt (",
                 ") FROM STDIN WITH (FORMAT text);\n")
          /\ ColumnList(writes[1].content) = common_cols
          /\ ColumnList(writes[1].content) = ColumnList(calls[2].sql)
          /\ Range(writes[1].content)
                 \cap (Range(dev_only) \cup Range(prod_only)) = {}

\* the header is written for a table with a common column, a
\* development-only column and production-only columns
C6_Witness ==
    /\ writes # <<>>
    /\ Len(common_cols) = 1
    /\ Len(dev_only) = 1
    /\ dev_cols[1] = dev_only[1]
    /\ prod_only # <<>>

\* C9: with no common column the script still has a step to take until its
\* end; the export statement it issues has an empty SELECT list, the header
\* it writes an empty parenthesized list; at the end of the run all five
\* invocations have been issued and the header written.
C9_EmptyCommonUnguarded ==
    (Reconciled /\ common_cols = <<>>) =>
        /\ pc # "done" => ENABLED Next
        /\ Len(calls) >= 2 => calls[2].sql = <<ExportPrefix, ExportSuffix>>
        /\ pc \in {"aux", "done"} =>
              writes = << [path |-> ImportPath,
                           content |-> <<ImportPrefix, ImportSuffix>>] >>
        /\ pc = "done" => Len(calls) = 5

\* a run that ended with development columns none of which is in production
C9_Witness ==
    /\ pc = "done"
    /\ common_cols = <<>>
    /\ dev_only # <<>>
    /\ Len(calls) = 5
    /\ writes # <<>>

\* C10: at most one invocation is in flight; an invocation starts and the
\* header is written only when none is; the discovery comes first, the
\* primary-table export after the reconciliation, the header after the
\* primary-table export returned, the auxiliary exports after the header;
\* every run ends, with five invocations issued and returned and one file
\* written.
C10_FixedSequence ==
    /\ [](Cardinality(inflight) <= 1)
    /\ [][calls' # calls =>
             /\ inflight = {}
             /\ Len(calls') = Len(calls) + 1
             /\ inflight' = {calls'[Len(calls')]}]_vars
    /\ [][writes' # writes =>
             /\ inflight = {}
             /\ Len(returned) = 2
             /\ writes = <<>>
             /\ Len(writes') = 1]_vars
    /\ [](calls # <<>> => calls[1].sql = DiscoverSql)
    /\ [](Len(calls) >= 2 => Reconciled /\ calls[2].sql[1] = ExportPrefix)
    /\ [](Len(calls) >= 3 => Len(writes) = 1)
    /\ [](Len(returned) + Cardinality(inflight) = Len(calls))
    /\ [](pc = "done" => Len(calls) = 5 /\ Len(returned) = 5 /\ Len(writes) = 1)
    /\ <>(pc = "done")

\* a run that ended although the primary-table export failed
C10_Witness ==
    /\ pc = "done"
    /\ Len(returned) = 5
    /\ returned[2].returncode # 0
    /\ Len(writes) = 1

====
